---- MODULE Spec2Model ----
(***************************************************************************)
(* Entity-Item graph (gbra/util/ei_graph.py) and its loaders               *)
(* (gbra/data/network_loader.py).                                          *)
(*                                                                         *)
(* An EIGraph object is the record                                         *)
(*   [G, num_entities, num_items, weights]                                 *)
(* where G models the underlying snap.TUNGraph as [nodes, edges]: a set of *)
(* node ids and a set of undirected edges, each edge the set {a, b} of its *)
(* two endpoints.  weights is the dict self._weights, a function whose     *)
(* domain is the set of keys <<entity, item>> present in the dict.         *)
(* Every method is an operator from the object (and the arguments) to the  *)
(* record [status, ret, graph]: the exception raised or "ok", the returned *)
(* value (<<>> for None, <<v>> for v) and the object after the call.       *)
(***************************************************************************)
EXTENDS Integers, FiniteSets, Sequences, TLC

\* Bounds of the model.
MaxNid == 3
MaxCalls == 4
MaxLoaderEntities == 2
MaxLoaderItems == 3

VARIABLES
    ei_graph,   \* the EIGraph object under operation
    last,       \* the last call made: [op, status, ret]
    calls,      \* number of calls made so far
    disk,       \* the two artifacts of save(): [topo, meta]
    loader,     \* the ErdosRenyiLoader object: <<>> or <<fields>>
    Graph,      \* local of ErdosRenyiLoader.load: <<>> or <<EIGraph>>
    edges_left, \* local of ErdosRenyiLoader.load
    pc          \* position of ErdosRenyiLoader.load

vars == <<ei_graph, last, calls, disk, loader, Graph, edges_left, pc>>

None == <<>>

(***************************************************************************)
(* Node kinds                                                              *)
(***************************************************************************)
nid_is_entity(node_id) == node_id % 2 = 1 /\ node_id >= 1

nid_is_item(node_id) == node_id % 2 = 0 /\ node_id >= 2

order_ei(nid1, nid2) ==
    IF nid_is_entity(nid2) THEN <<nid2, nid1>> ELSE <<nid1, nid2>>

(***************************************************************************)
(* snap.TUNGraph, as used by EIGraph                                       *)
(***************************************************************************)
TUNGraph_New == [nodes |-> {}, edges |-> {}]

IsNode(G, nid) == nid \in G.nodes

\* AddNode raises when the id is already a node.
AddNode(G, nid) ==
    IF IsNode(G, nid)
    THEN [status |-> "RuntimeError", G |-> G]
    ELSE [status |-> "ok", G |-> [G EXCEPT !.nodes = @ \cup {nid}]]

IsEdge(G, nid1, nid2) ==
    IsNode(G, nid1) /\ IsNode(G, nid2) /\ {nid1, nid2} \in G.edges

\* AddEdge raises when an endpoint is no node, returns -2 when the edge
\* exists already and -1 when it added the edge.
AddEdge(G, nid1, nid2) ==
    IF ~(IsNode(G, nid1) /\ IsNode(G, nid2))
    THEN [status |-> "RuntimeError", res |-> 0, G |-> G]
    ELSE IF IsEdge(G, nid1, nid2)
    THEN [status |-> "ok", res |-> -2, G |-> G]
    ELSE [status |-> "ok", res |-> -1,
          G |-> [G EXCEPT !.edges = @ \cup {{nid1, nid2}}]]

\* DelEdge raises when an endpoint is no node, and removes the edge if present.
DelEdge(G, nid1, nid2) ==
    IF ~(IsNode(G, nid1) /\ IsNode(G, nid2))
    THEN [status |-> "RuntimeError", G |-> G]
    ELSE [status |-> "ok", G |-> [G EXCEPT !.edges = @ \ {{nid1, nid2}}]]

GetOutEdges(G, nid) == {n \in G.nodes : {nid, n} \in G.edges}

(***************************************************************************)
(* dict operations on self._weights                                        *)
(***************************************************************************)
DictSet(d, key, value) ==
    [k \in DOMAIN d \cup {key} |-> IF k = key THEN value ELSE d[k]]

DictDel(d, key) == [k \in DOMAIN d \ {key} |-> d[k]]

EmptyDict == [k \in {} |-> 0]

(***************************************************************************)
(* EIGraph                                                                 *)
(***************************************************************************)
Result(status, ret, graph) == [status |-> status, ret |-> ret, graph |-> graph]

\* add_entity computing its id the way add_item does.
add_entity_off_by_one(self) ==
    LET new_id == (self.num_entities + 1) * 2 + 1
        r == AddNode(self.G, new_id)
    IN  IF r.status # "ok"
        THEN Result(r.status, None, self)
        ELSE Result("ok", <<new_id>>,
                    [self EXCEPT !.G = r.G, !.num_entities = @ + 1])

add_entity(self) ==
    LET new_id == self.num_entities * 2 + 1
        r == AddNode(self.G, new_id)
    IN  IF r.status # "ok"
        THEN Result(r.status, None, self)
        ELSE Result("ok", <<new_id>>,
                    [self EXCEPT !.G = r.G, !.num_entities = @ + 1])

add_item(self) ==
    LET new_id == (self.num_items + 1) * 2
        r == AddNode(self.G, new_id)
    IN  IF r.status # "ok"
        THEN Result(r.status, None, self)
        ELSE Result("ok", <<new_id>>,
                    [self EXCEPT !.G = r.G, !.num_items = @ + 1])

RECURSIVE AddEntities(_, _)
AddEntities(self, n) ==
    IF n <= 0 THEN self ELSE AddEntities(add_entity(self).graph, n - 1)

RECURSIVE AddItems(_, _)
AddItems(self, n) ==
    IF n <= 0 THEN self ELSE AddItems(add_item(self).graph, n - 1)

\* EIGraph.__init__
EIGraph(num_entities, num_items) ==
    LET empty == [G |-> TUNGraph_New, num_entities |-> 0, num_items |-> 0,
                  weights |-> EmptyDict]
    IN  [AddItems(AddEntities(empty, num_entities), num_items)
            EXCEPT !.weights = EmptyDict]

\* add_edge without its first assertion.
add_edge_no_kind_check(self, nid1, nid2, weight) ==
    LET stored == [self EXCEPT
                      !.weights = DictSet(@, order_ei(nid1, nid2), weight)]
        r == AddEdge(self.G, nid1, nid2)
    IN  IF r.status # "ok"
        THEN Result(r.status, None, stored)
        ELSE IF r.res # -1
        THEN Result("AssertionError: -2", None, stored)
        ELSE Result("ok", None, [stored EXCEPT !.G = r.G])

\* add_edge storing the weight before it checks the kinds.
add_edge_store_first(self, nid1, nid2, weight) ==
    LET stored == [self EXCEPT
                      !.weights = DictSet(@, order_ei(nid1, nid2), weight)]
        r == AddEdge(self.G, nid1, nid2)
    IN  IF nid_is_entity(nid1) = nid_is_entity(nid2)
        THEN Result("AssertionError", None, stored)
        ELSE IF r.status # "ok"
        THEN Result(r.status, None, stored)
        ELSE IF r.res # -1
        THEN Result("AssertionError: -2", None, stored)
        ELSE Result("ok", None, [stored EXCEPT !.G = r.G])

\* add_edge adding the weight to the one stored.
add_edge_additive(self, nid1, nid2, weight) ==
    IF nid_is_entity(nid1) = nid_is_entity(nid2)
    THEN Result("AssertionError", None, self)
    ELSE LET key == order_ei(nid1, nid2)
             old == IF key \in DOMAIN self.weights THEN self.weights[key] ELSE 0
             stored == [self EXCEPT !.weights = DictSet(@, key, old + weight)]
             r == AddEdge(self.G, nid1, nid2)
         IN  IF r.status # "ok"
             THEN Result(r.status, None, stored)
             ELSE IF r.res # -1
             THEN Result("AssertionError: -2", None, stored)
             ELSE Result("ok", None, [stored EXCEPT !.G = r.G])

add_edge(self, nid1, nid2, weight) ==
    IF nid_is_entity(nid1) = nid_is_entity(nid2)
    THEN Result("AssertionError", None, self)
    ELSE LET stored == [self EXCEPT
                           !.weights = DictSet(@, order_ei(nid1, nid2), weight)]
             r == AddEdge(self.G, nid1, nid2)
         IN  IF r.status # "ok"
             THEN Result(r.status, None, stored)
             ELSE IF r.res # -1
             THEN Result("AssertionError: -2", None, stored)
             ELSE Result("ok", None, [stored EXCEPT !.G = r.G])

\* del_edge that removes the weight and leaves the edge in the TUNGraph.
del_edge_keeps_edge(self, nid1, nid2) ==
    IF nid_is_entity(nid1) = nid_is_entity(nid2)
    THEN Result("AssertionError", None, self)
    ELSE IF order_ei(nid1, nid2) \notin DOMAIN self.weights
    THEN Result("KeyError", None, self)
    ELSE Result("ok", None,
                [self EXCEPT !.weights = DictDel(@, order_ei(nid1, nid2))])

del_edge(self, nid1, nid2) ==
    IF nid_is_entity(nid1) = nid_is_entity(nid2)
    THEN Result("AssertionError", None, self)
    ELSE IF order_ei(nid1, nid2) \notin DOMAIN self.weights
    THEN Result("KeyError", None, self)
    ELSE LET removed == [self EXCEPT
                            !.weights = DictDel(@, order_ei(nid1, nid2))]
             r == DelEdge(self.G, nid1, nid2)
         IN  IF r.status # "ok"
             THEN Result(r.status, None, removed)
             ELSE Result("ok", None, [removed EXCEPT !.G = r.G])

is_edge(self, nid1, nid2) == IsEdge(self.G, nid1, nid2)

\* get_edge_weight looking the pair up as it was given.
get_edge_weight_unordered_key(self, nid1, nid2) ==
    IF ~is_edge(self, nid1, nid2)
    THEN Result("AssertionError", None, self)
    ELSE IF <<nid1, nid2>> \notin DOMAIN self.weights
    THEN Result("KeyError", None, self)
    ELSE Result("ok", <<self.weights[<<nid1, nid2>>]>>, self)

get_edge_weight(self, nid1, nid2) ==
    IF ~is_edge(self, nid1, nid2)
    THEN Result("AssertionError", None, self)
    ELSE IF order_ei(nid1, nid2) \notin DOMAIN self.weights
    THEN Result("KeyError", None, self)
    ELSE Result("ok", <<self.weights[order_ei(nid1, nid2)]>>, self)

get_items(self) == {n \in self.G.nodes : n % 2 = 0}

get_entities(self) == {n \in self.G.nodes : n % 2 = 1}

Min(S) == CHOOSE x \in S : \A y \in S : x <= y

RECURSIVE SortedSeq(_)
SortedSeq(S) == IF S = {} THEN <<>> ELSE <<Min(S)>> \o SortedSeq(S \ {Min(S)})

\* get_neighbors: GetNI raises when the id is no node; the neighbour vector
\* of a node is kept sorted by id.
get_neighbors(self, node) ==
    IF ~IsNode(self.G, node)
    THEN Result("RuntimeError", None, self)
    ELSE Result("ok", <<SortedSeq(GetOutEdges(self.G, node))>>, self)

\* The scan of the sampler for one threshold: the first value at which the
\* running sum exceeds the threshold, the last value otherwise.
RECURSIVE weighted_scan(_, _, _, _, _)
weighted_scan(values, weights, threshold, k, running) ==
    IF k >= Len(values) THEN values[Len(values)]
    ELSE IF running + weights[k] > threshold THEN values[k]
    ELSE weighted_scan(values, weights, threshold, k + 1, running + weights[k])

\* weighted_choice: the values a threshold of [0, weight_sum) can select.
\* The weights are integers, so the thresholds 0 .. weight_sum - 1 stand for
\* the unit intervals of the real ones.  Without any such threshold the
\* outcome is undefined: any value.
weighted_choice(values, weights, weight_sum) ==
    IF weight_sum <= 0
    THEN {values[k] : k \in 1 .. Len(values)}
    ELSE {weighted_scan(values, weights, threshold, 1, 0) :
              threshold \in 0 .. weight_sum - 1}

\* The loop of the weighted mode over the first k neighbours: the weights
\* list and weight_sum, or the error of the get_edge_weight that failed.
RECURSIVE read_weights(_, _, _, _)
read_weights(self, node, neighbors, k) ==
    IF k = 0
    THEN [status |-> "ok", weights |-> <<>>, weight_sum |-> 0]
    ELSE LET acc == read_weights(self, node, neighbors, k - 1)
             w == get_edge_weight(self, node, neighbors[k])
         IN  IF acc.status # "ok" THEN acc
             ELSE IF w.status # "ok"
             THEN [acc EXCEPT !.status = w.status]
             ELSE [status |-> "ok",
                   weights |-> Append(acc.weights, w.ret[1]),
                   weight_sum |-> acc.weight_sum + w.ret[1]]

\* get_random_neighbor: the set of its possible outcomes.
get_random_neighbor(self, node, use_weights) ==
    LET nb == get_neighbors(self, node)
        neighbors == nb.ret[1]
        rw == read_weights(self, node, neighbors, Len(neighbors))
    IN  IF nb.status # "ok"
        THEN {Result(nb.status, None, self)}
        ELSE IF neighbors = <<>>
        THEN {Result("ValueError", None, self)}
        ELSE IF ~use_weights
        THEN {Result("ok", <<neighbors[k]>>, self) : k \in 1 .. Len(neighbors)}
        ELSE IF rw.status # "ok"
        THEN {Result(rw.status, None, self)}
        ELSE {Result("ok", <<draw>>, self) :
                  draw \in weighted_choice(neighbors, rw.weights, rw.weight_sum)}

has_entity(self, entity_id) ==
    IF ~nid_is_entity(entity_id)
    THEN Result("AssertionError", None, self)
    ELSE Result("ok", <<IsNode(self.G, entity_id)>>, self)

has_item(self, item_id) ==
    IF ~nid_is_item(item_id)
    THEN Result("AssertionError", None, self)
    ELSE Result("ok", <<IsNode(self.G, item_id)>>, self)

(***************************************************************************)
(* Calls on the object under operation                                     *)
(***************************************************************************)
\* Ids handed to the edge operations: 0 is of neither kind, and the ids up
\* to MaxNid include ids that are not nodes of the graph (yet).
NodeIds == 0 .. MaxNid

\* The numbers of entities and of items whose ids stay within MaxNid.
MaxEntities == (MaxNid + 1) \div 2

MaxItems == MaxNid \div 2

\* Weights handed to add_edge: the default weight and another one.
Weights == {1, 2}

Call(op, r) ==
    /\ calls < MaxCalls
    /\ calls' = calls + 1
    /\ ei_graph' = r.graph
    /\ last' = [op |-> op, status |-> r.status, ret |-> r.ret]

LoaderVars == <<loader, Graph, edges_left, pc>>

CallAddEntity ==
    /\ ei_graph.num_entities < MaxEntities
    /\ Call("add_entity", add_entity(ei_graph))
    /\ UNCHANGED <<disk, LoaderVars>>

CallAddItem ==
    /\ ei_graph.num_items < MaxItems
    /\ Call("add_item", add_item(ei_graph))
    /\ UNCHANGED <<disk, LoaderVars>>

CallAddEdge ==
    /\ \E nid1 \in NodeIds, nid2 \in NodeIds, weight \in Weights :
          Call("add_edge", add_edge(ei_graph, nid1, nid2, weight))
    /\ UNCHANGED <<disk, LoaderVars>>

CallDelEdge ==
    /\ \E nid1 \in NodeIds, nid2 \in NodeIds :
          Call("del_edge", del_edge(ei_graph, nid1, nid2))
    /\ UNCHANGED <<disk, LoaderVars>>

CallGetEdgeWeight ==
    /\ \E nid1 \in NodeIds, nid2 \in NodeIds :
          Call("get_edge_weight", get_edge_weight(ei_graph, nid1, nid2))
    /\ UNCHANGED <<disk, LoaderVars>>

CallGetRandomNeighbor ==
    /\ \E node \in NodeIds, use_weights \in BOOLEAN :
          \E r \in get_random_neighbor(ei_graph, node, use_weights) :
              Call(IF use_weights
                   THEN "get_random_neighbor(use_weights=True)"
                   ELSE "get_random_neighbor", r)
    /\ UNCHANGED <<disk, LoaderVars>>

CallHasEntity ==
    /\ \E entity_id \in NodeIds : Call("has_entity", has_entity(ei_graph, entity_id))
    /\ UNCHANGED <<disk, LoaderVars>>

CallHasItem ==
    /\ \E item_id \in NodeIds : Call("has_item", has_item(ei_graph, item_id))
    /\ UNCHANGED <<disk, LoaderVars>>

(***************************************************************************)
(* Persistence: save writes the topology artifact, then the weight sidecar *)
(***************************************************************************)
\* Order of the dict's keys in the stream (pairs of ints).
KeyLeq(a, b) == a[1] < b[1] \/ (a[1] = b[1] /\ a[2] <= b[2])

MinKey(S) == CHOOSE x \in S : \A y \in S : KeyLeq(x, y)

RECURSIVE DictItems(_, _)
DictItems(d, keys) ==
    IF keys = {} THEN <<>>
    ELSE <<<<MinKey(keys), d[MinKey(keys)]>>>>
             \o DictItems(d, keys \ {MinKey(keys)})

\* TUNGraph.Save: one record <<id, neighbour vector>> per node.
TUNGraph_Save(G) ==
    LET ids == SortedSeq(G.nodes)
    IN  [k \in 1 .. Len(ids) |-> <<ids[k], SortedSeq(GetOutEdges(G, ids[k]))>>]

\* TUNGraph.Load: the nodes of the stream and, for each, its neighbours.
TUNGraph_Load(data) ==
    [nodes |-> {data[k][1] : k \in 1 .. Len(data)},
     edges |-> UNION {{{data[k][1], data[k][2][j]} : j \in 1 .. Len(data[k][2])}
                         : k \in 1 .. Len(data)}]

\* marshal.dump of the dict: its (key, value) items.
marshal_dump(d) == DictItems(d, DOMAIN d)

\* marshal.load: the dict of the items of the stream.
marshal_load(data) ==
    [key \in {data[k][1] : k \in 1 .. Len(data)} |->
        LET k == CHOOSE j \in 1 .. Len(data) : data[j][1] = key IN data[k][2]]

NoFile == [exists |-> FALSE, data |-> <<>>]

File(data) == [exists |-> TRUE, data |-> data]

\* save when both files can be written.
save(self, d) ==
    [status |-> "ok",
     disk |-> [topo |-> File(TUNGraph_Save(self.G)),
               meta |-> File(marshal_dump(self.weights))]]

\* save when the sidecar cannot be opened for writing: the topology artifact
\* is on disk already.
save_meta_fails(self, d) ==
    [status |-> "IOError",
     disk |-> [d EXCEPT !.topo = File(TUNGraph_Save(self.G))]]

\* load that leaves the weights of the new object empty.
load_without_weights(d) ==
    IF ~d.topo.exists
    THEN Result("RuntimeError", None, None)
    ELSE LET G == TUNGraph_Load(d.topo.data)
             graph == [EIGraph(0, 0) EXCEPT
                          !.G = G,
                          !.num_entities =
                              Cardinality({n \in G.nodes : nid_is_entity(n)}),
                          !.num_items =
                              Cardinality({n \in G.nodes : ~nid_is_entity(n)})]
         IN  IF ~d.meta.exists
             THEN Result("IOError", None, None)
             ELSE Result("ok", <<graph>>, None)

\* load that never counts the items.
load_without_item_count(d) ==
    IF ~d.topo.exists
    THEN Result("RuntimeError", None, None)
    ELSE LET G == TUNGraph_Load(d.topo.data)
             graph == [EIGraph(0, 0) EXCEPT
                          !.G = G,
                          !.num_entities =
                              Cardinality({n \in G.nodes : nid_is_entity(n)})]
         IN  IF \E n \in G.nodes : ~nid_is_entity(n) /\ ~nid_is_item(n)
             THEN Result("AssertionError", None, None)
             ELSE IF ~d.meta.exists
             THEN Result("IOError", None, None)
             ELSE Result("ok",
                         <<[graph EXCEPT !.weights = marshal_load(d.meta.data)]>>,
                         None)

\* load: the counters are recounted from the nodes of the topology artifact.
load(d) ==
    IF ~d.topo.exists
    THEN Result("RuntimeError", None, None)
    ELSE LET G == TUNGraph_Load(d.topo.data)
             graph == [EIGraph(0, 0) EXCEPT
                          !.G = G,
                          !.num_entities =
                              Cardinality({n \in G.nodes : nid_is_entity(n)}),
                          !.num_items =
                              Cardinality({n \in G.nodes : ~nid_is_entity(n)})]
         IN  IF \E n \in G.nodes : ~nid_is_entity(n) /\ ~nid_is_item(n)
             THEN Result("AssertionError", None, None)
             ELSE IF ~d.meta.exists
             THEN Result("IOError", None, None)
             ELSE Result("ok",
                         <<[graph EXCEPT !.weights = marshal_load(d.meta.data)]>>,
                         None)

CallSave ==
    /\ calls < MaxCalls
    /\ calls' = calls + 1
    /\ disk' = save(ei_graph, disk).disk
    /\ last' = [op |-> "save",
                status |-> save(ei_graph, disk).status, ret |-> None]
    /\ UNCHANGED <<ei_graph, LoaderVars>>

CallSaveMetaFails ==
    /\ calls < MaxCalls
    /\ calls' = calls + 1
    /\ disk' = save_meta_fails(ei_graph, disk).disk
    /\ last' = [op |-> "save",
                status |-> save_meta_fails(ei_graph, disk).status, ret |-> None]
    /\ UNCHANGED <<ei_graph, LoaderVars>>

CallLoad ==
    /\ calls < MaxCalls
    /\ calls' = calls + 1
    /\ last' = [op |-> "load",
                status |-> load(disk).status, ret |-> load(disk).ret]
    /\ UNCHANGED <<ei_graph, disk, LoaderVars>>

\* The caller goes on with the graph that load returned.
UseLoaded ==
    /\ last.op = "load"
    /\ last.status = "ok"
    /\ ei_graph' = last.ret[1]
    /\ UNCHANGED <<last, calls, disk, LoaderVars>>

(***************************************************************************)
(* ErdosRenyiLoader                                                        *)
(***************************************************************************)
\* __init__ rejecting the complete bipartite graph too.
ErdosRenyiLoader_rejects_equal(num_entities, num_items, num_edges) ==
    IF num_edges >= num_entities * num_items
    THEN [status |-> "ValueError", self |-> None]
    ELSE [status |-> "ok",
          self |-> <<[num_entities |-> num_entities, num_items |-> num_items,
                      num_edges |-> num_edges]>>]

\* ErdosRenyiLoader.__init__
ErdosRenyiLoader(num_entities, num_items, num_edges) ==
    IF num_edges > num_entities * num_items
    THEN [status |-> "ValueError", self |-> None]
    ELSE [status |-> "ok",
          self |-> <<[num_entities |-> num_entities, num_items |-> num_items,
                      num_edges |-> num_edges]>>]

\* random.randint(a, b): the values it can return.
randint(a, b) == a .. b

\* The ids one pass of the loop can draw.
entity_node_ids(self) == {2 * k + 1 : k \in randint(0, self.num_entities - 1)}

item_node_ids(self) == {2 * k : k \in randint(0, self.num_items - 1)}

GraphVars == <<ei_graph, calls, disk>>

\* Arguments of the constructor: up to one edge more than the largest
\* complete bipartite graph.
LoaderEntities == 0 .. MaxLoaderEntities

LoaderItems == 0 .. MaxLoaderItems

LoaderEdges == 0 .. MaxLoaderEntities * MaxLoaderItems + 1

NewLoader ==
    /\ pc = "idle"
    /\ \E num_entities \in LoaderEntities, num_items \in LoaderItems,
          num_edges \in LoaderEdges :
          LET r == ErdosRenyiLoader(num_entities, num_items, num_edges)
          IN  /\ last' = [op |-> "ErdosRenyiLoader", status |-> r.status,
                          ret |-> None]
              /\ loader' = IF r.status = "ok" THEN r.self ELSE loader
    /\ UNCHANGED <<GraphVars, Graph, edges_left, pc>>

\* load(), up to the head of the loop.
LoadStart ==
    /\ pc # "loop"
    /\ loader # None
    /\ Graph' = <<EIGraph(loader[1].num_entities, loader[1].num_items)>>
    /\ edges_left' = loader[1].num_edges
    /\ pc' = "loop"
    /\ last' = [op |-> "load", status |-> "running", ret |-> None]
    /\ UNCHANGED <<GraphVars, loader>>

\* One pass of the loop body.
LoadDraw ==
    /\ pc = "loop"
    /\ edges_left > 0
    /\ IF entity_node_ids(loader[1]) = {} \/ item_node_ids(loader[1]) = {}
       THEN \* randint raises on an empty range
            /\ pc' = "raised"
            /\ last' = [last EXCEPT !.status = "ValueError"]
            /\ UNCHANGED <<Graph, edges_left>>
       ELSE \E entity_node_id \in entity_node_ids(loader[1]),
               item_node_id \in item_node_ids(loader[1]) :
               IF ~is_edge(Graph[1], entity_node_id, item_node_id)
               THEN LET r == add_edge(Graph[1], entity_node_id, item_node_id, 1)
                    IN  /\ edges_left' = edges_left - 1
                        /\ Graph' = <<r.graph>>
                        /\ pc' = IF r.status = "ok" THEN "loop" ELSE "raised"
                        /\ last' = [last EXCEPT !.status =
                                       IF r.status = "ok" THEN "running"
                                       ELSE r.status]
               ELSE UNCHANGED <<Graph, edges_left, pc, last>>
    /\ UNCHANGED <<GraphVars, loader>>

LoadReturn ==
    /\ pc = "loop"
    /\ edges_left <= 0
    /\ pc' = "returned"
    /\ last' = [last EXCEPT !.status = "ok", !.ret = Graph]
    /\ UNCHANGED <<GraphVars, loader, Graph, edges_left>>

(***************************************************************************)
(* TinyTestLoader                                                          *)
(***************************************************************************)
\* The edges load() adds, in its order.
TinyTestEdges ==
    << <<1, 2>>, <<1, 4>>, <<1, 6>>, <<3, 8>>, <<5, 4>>, <<5, 8>>,
       <<7, 6>>, <<7, 8>>, <<7, 10>>, <<9, 2>>, <<9, 10>>, <<11, 10>> >>

\* The first k calls G.add_edge(e, i) with the default weight 1; the first
\* one that raises ends the sequence.
RECURSIVE add_edges(_, _, _)
add_edges(G, pairs, k) ==
    IF k = 0
    THEN Result("ok", None, G)
    ELSE LET r == add_edges(G, pairs, k - 1)
         IN  IF r.status # "ok" THEN r
             ELSE add_edge(r.graph, pairs[k][1], pairs[k][2], 1)

\* TinyTestLoader.load on a graph of five entities.
TinyTestLoader_load_five_entities ==
    LET r == add_edges(EIGraph(5, 5), TinyTestEdges, Len(TinyTestEdges))
    IN  IF r.status # "ok"
        THEN Result(r.status, None, None)
        ELSE Result("ok", <<r.graph>>, None)

\* TinyTestLoader.load
TinyTestLoader_load ==
    LET r == add_edges(EIGraph(6, 5), TinyTestEdges, Len(TinyTestEdges))
    IN  IF r.status # "ok"
        THEN Result(r.status, None, None)
        ELSE Result("ok", <<r.graph>>, None)

CallTinyTestLoad ==
    /\ pc # "loop"
    /\ last' = [op |-> "TinyTestLoader.load",
                status |-> TinyTestLoader_load.status,
                ret |-> TinyTestLoader_load.ret]
    /\ UNCHANGED <<GraphVars, LoaderVars>>

(***************************************************************************)
(* Specifications                                                          *)
(***************************************************************************)
Init ==
    /\ \E n \in 0 .. MaxEntities, m \in 0 .. MaxItems :
          /\ ei_graph = EIGraph(n, m)
          /\ last = [op |-> "EIGraph", status |-> "ok", ret |-> None]
    /\ calls = 0
    /\ disk = [topo |-> NoFile, meta |-> NoFile]
    /\ loader = None
    /\ Graph = None
    /\ edges_left = 0
    /\ pc = "idle"

\* The public operations of one EIGraph object.
Next ==
    \/ CallAddEntity
    \/ CallAddItem
    \/ CallAddEdge
    \/ CallDelEdge

Spec == Init /\ [][Next]_vars

\* The public operations, save and load.
NextPersist ==
    \/ CallAddEntity
    \/ CallAddItem
    \/ CallAddEdge
    \/ CallDelEdge
    \/ CallSave
    \/ CallSaveMetaFails
    \/ CallLoad

SpecPersist == Init /\ [][NextPersist]_vars

\* The public operations, save and load, and work on the loaded graph.
NextReload ==
    \/ CallAddEntity
    \/ CallAddItem
    \/ CallAddEdge
    \/ CallDelEdge
    \/ CallSave
    \/ CallSaveMetaFails
    \/ CallLoad
    \/ UseLoaded

SpecReload == Init /\ [][NextReload]_vars

\* The public operations and the queries of one EIGraph object.
NextQuery ==
    \/ CallAddEntity
    \/ CallAddItem
    \/ CallAddEdge
    \/ CallDelEdge
    \/ CallGetEdgeWeight
    \/ CallGetRandomNeighbor
    \/ CallHasEntity
    \/ CallHasItem

SpecQuery == Init /\ [][NextQuery]_vars

\* The queries on graphs that went through save and load as well.
NextReloadQuery ==
    \/ CallAddEntity
    \/ CallAddItem
    \/ CallAddEdge
    \/ CallDelEdge
    \/ CallSave
    \/ CallSaveMetaFails
    \/ CallLoad
    \/ UseLoaded
    \/ CallGetEdgeWeight
    \/ CallGetRandomNeighbor
    \/ CallHasEntity
    \/ CallHasItem

SpecReloadQuery == Init /\ [][NextReloadQuery]_vars

\* The random loader: construction and load().
NextLoader ==
    \/ NewLoader
    \/ LoadStart
    \/ LoadDraw
    \/ LoadReturn

InitLoader ==
    /\ ei_graph = EIGraph(0, 0)
    /\ last = [op |-> "EIGraph", status |-> "ok", ret |-> None]
    /\ calls = 0
    /\ disk = [topo |-> NoFile, meta |-> NoFile]
    /\ loader = None
    /\ Graph = None
    /\ edges_left = 0
    /\ pc = "idle"

SpecLoader == InitLoader /\ [][NextLoader]_vars

\* Both loaders.
NextLoaders ==
    \/ NewLoader
    \/ LoadStart
    \/ LoadDraw
    \/ LoadReturn
    \/ CallTinyTestLoad

SpecLoaders == InitLoader /\ [][NextLoaders]_vars

\* The pass of the loop that draws the pair (entity_node_id, item_node_id)
\* while it is no edge yet.
DrawnPair(entity_node_id, item_node_id) ==
    /\ LoadDraw
    /\ ~is_edge(Graph[1], entity_node_id, item_node_id)
    /\ Graph' = <<add_edge(Graph[1], entity_node_id, item_node_id, 1).graph>>

\* Fair draws: a pair that stays drawable is drawn, and a loop whose counter
\* is zero returns.
SpecLoaderFair ==
    /\ InitLoader
    /\ [][NextLoader]_vars
    /\ WF_vars(LoadReturn)
    /\ \A entity_node_id \in {2 * k + 1 : k \in 0 .. MaxLoaderEntities - 1},
          item_node_id \in {2 * k : k \in 0 .. MaxLoaderItems} :
          WF_vars(DrawnPair(entity_node_id, item_node_id))

(***************************************************************************)
(* Properties                                                              *)
(***************************************************************************)
\* The edges of the graph as canonical (entity, item) keys.
EdgeKeys(G) ==
    {order_ei(a, b) : <<a, b>> \in {p \in G.nodes \X G.nodes : {p[1], p[2]} \in G.edges}}

SameKind(nid1, nid2) ==
    \/ nid_is_entity(nid1) /\ nid_is_entity(nid2)
    \/ nid_is_item(nid1) /\ nid_is_item(nid2)

\* C1: at every point where a call has returned or raised, the keys of the
\* weight map are exactly the edges of the graph.
C1_WeightKeysAreEdges == DOMAIN ei_graph.weights = EdgeKeys(ei_graph.G)

\* C2: every edge joins one Entity id (odd, >= 1) and one Item id (even,
\* >= 2), both of them nodes of the graph.
C2_EdgesJoinEntityAndItem ==
    \A e \in ei_graph.G.edges :
        \E a \in ei_graph.G.nodes, b \in ei_graph.G.nodes :
            e = {a, b} /\ nid_is_entity(a) /\ nid_is_item(b)

C2_Witness ==
    /\ last.op = "add_edge" /\ last.status = "ok"
    /\ Cardinality(ei_graph.G.edges) >= 2

\* C3: a load that directly follows a completed save of the graph returns a
\* graph with the same nodes (entities and items), edges, weights and
\* counters as the graph saved.
C3_RoundTrip ==
    [][(last.op = "save" /\ last.status = "ok" /\ last'.op = "load")
        => (last'.status = "ok" /\ last'.ret = <<ei_graph>>)]_vars

C3_Witness ==
    /\ last.op = "load" /\ last.status = "ok"
    /\ last.ret = <<ei_graph>>
    /\ ei_graph.G.edges # {}
    /\ DOMAIN ei_graph.weights = EdgeKeys(ei_graph.G)
    /\ \E k \in DOMAIN ei_graph.weights : ei_graph.weights[k] = 2

\* C4: in every reachable state, add_edge on two Entity ids or two Item ids
\* fails and leaves the nodes, the edges, the weight map and the counters as
\* they were.
C4_SameKindAddEdgeFails ==
    \A nid1 \in NodeIds, nid2 \in NodeIds, weight \in Weights :
        SameKind(nid1, nid2) =>
            LET r == add_edge(ei_graph, nid1, nid2, weight)
            IN  r.status # "ok" /\ r.graph = ei_graph

\* The kind assertion of add_edge has just failed, in a graph that has edges
\* and two nodes of the same kind.
C4_Witness ==
    /\ last.op = "add_edge" /\ last.status = "AssertionError"
    /\ ei_graph.G.edges # {}
    /\ \E a \in ei_graph.G.nodes, b \in ei_graph.G.nodes :
          a # b /\ SameKind(a, b)

\* C5 as claimed: in every reachable state, add_edge(a, b, w2) on an existing
\* edge raises no error, leaves the edge set unchanged and makes
\* get_edge_weight(a, b) return w2.
C5_ReAddSucceeds ==
    \A nid1 \in NodeIds, nid2 \in NodeIds, weight \in Weights :
        is_edge(ei_graph, nid1, nid2) =>
            LET r == add_edge(ei_graph, nid1, nid2, weight)
            IN  /\ r.status = "ok"
                /\ r.graph.G.edges = ei_graph.G.edges
                /\ get_edge_weight(r.graph, nid1, nid2).ret = <<weight>>

\* C5 amended: in every reachable state, add_edge(a, b, w2) on an existing
\* edge raises AssertionError (AddEdge returned -2, not -1), leaves the edge
\* set unchanged and makes get_edge_weight(a, b) return w2.
C5_ReAddRaisesAndOverwrites ==
    \A nid1 \in NodeIds, nid2 \in NodeIds, weight \in Weights :
        is_edge(ei_graph, nid1, nid2) =>
            LET r == add_edge(ei_graph, nid1, nid2, weight)
            IN  /\ r.status = "AssertionError: -2"
                /\ r.graph.G = ei_graph.G
                /\ get_edge_weight(r.graph, nid1, nid2).status = "ok"
                /\ get_edge_weight(r.graph, nid1, nid2).ret = <<weight>>

\* add_edge has just failed on AddEdge's result, and the graph has an edge of
\* weight 2 and one of weight 1.
C5_Witness ==
    /\ last.op = "add_edge" /\ last.status = "AssertionError: -2"
    /\ DOMAIN ei_graph.weights = EdgeKeys(ei_graph.G)
    /\ \E k \in DOMAIN ei_graph.weights : ei_graph.weights[k] = 2
    /\ \E k \in DOMAIN ei_graph.weights : ei_graph.weights[k] = 1

\* C6: in every reachable state, when del_edge(a, b) returns, then in the
\* state it leaves is_edge(a, b) is false, get_edge_weight(a, b) fails, the
\* weight map has no entry for the pair, and every other edge and weight
\* entry is as before.
C6_DelEdgeRemoves ==
    \A nid1 \in NodeIds, nid2 \in NodeIds :
        LET r == del_edge(ei_graph, nid1, nid2)
            key == order_ei(nid1, nid2)
        IN  r.status = "ok" =>
               /\ ~is_edge(r.graph, nid1, nid2)
               /\ get_edge_weight(r.graph, nid1, nid2).status # "ok"
               /\ key \notin DOMAIN r.graph.weights
               /\ r.graph.G.edges = ei_graph.G.edges \ {{nid1, nid2}}
               /\ r.graph.G.nodes = ei_graph.G.nodes
               /\ \A k \in DOMAIN ei_graph.weights \ {key} :
                     /\ k \in DOMAIN r.graph.weights
                     /\ r.graph.weights[k] = ei_graph.weights[k]
               /\ DOMAIN r.graph.weights \subseteq DOMAIN ei_graph.weights
               /\ r.graph.num_entities = ei_graph.num_entities
               /\ r.graph.num_items = ei_graph.num_items

\* del_edge has just returned, the third call after two add_edge calls, and
\* the other edge and its weight are still there.
C6_Witness ==
    /\ last.op = "del_edge" /\ last.status = "ok"
    /\ calls = 3
    /\ Cardinality(ei_graph.G.edges) = 1
    /\ DOMAIN ei_graph.weights = EdgeKeys(ei_graph.G)

\* C7: in every reachable state, del_edge fails, leaving the graph unchanged,
\* whenever the pair is not an edge or the ids are of the same kind; it
\* succeeds only on an edge.
C7_DelEdgeFailsUnlessEdge ==
    \A nid1 \in NodeIds, nid2 \in NodeIds :
        LET r == del_edge(ei_graph, nid1, nid2)
        IN  (~is_edge(ei_graph, nid1, nid2) \/ SameKind(nid1, nid2))
                => (r.status # "ok" /\ r.graph = ei_graph)

\* C8: every load() of an accepted configuration returns, and returns a graph
\* of num_entities + num_items nodes and num_edges edges, each joining an
\* entity and an item of the graph.
C8_RandomLoadBuildsGraph ==
    /\ pc # "raised"
    /\ pc = "returned" =>
          /\ Cardinality(Graph[1].G.nodes)
                = loader[1].num_entities + loader[1].num_items
          /\ Cardinality(Graph[1].G.edges) = loader[1].num_edges
          /\ \A e \in Graph[1].G.edges :
                \E a \in get_entities(Graph[1]), b \in get_items(Graph[1]) :
                    e = {a, b}

\* C9: construction fails exactly when num_edges > num_entities * num_items,
\* and a failing construction creates no loader, graph or node; otherwise
\* the loader stores the three parameters unchanged, and no graph either.
C9_ConstructorValidates ==
    /\ [](\A num_entities \in LoaderEntities, num_items \in LoaderItems,
            num_edges \in LoaderEdges :
            LET r == ErdosRenyiLoader(num_entities, num_items, num_edges)
            IN  IF num_edges > num_entities * num_items
                THEN r.status # "ok" /\ r.self = None
                ELSE /\ r.status = "ok"
                     /\ r.self = <<[num_entities |-> num_entities,
                                    num_items |-> num_items,
                                    num_edges |-> num_edges]>>)
    /\ [][(last'.op = "ErdosRenyiLoader")
            => /\ Graph' = Graph /\ pc' = pc /\ edges_left' = edges_left
               /\ last'.status # "ok" => loader' = loader
               /\ last'.status = "ok" =>
                     /\ loader' # None
                     /\ loader'[1].num_edges
                           <= loader'[1].num_entities * loader'[1].num_items]_vars

\* A loader of the complete bipartite graph has just been constructed.
C9_Witness ==
    /\ last.op = "ErdosRenyiLoader" /\ last.status = "ok"
    /\ loader[1].num_edges = loader[1].num_entities * loader[1].num_items
    /\ loader[1].num_edges > 0
    /\ Graph = None

\* The two artifacts are both present and the sidecar's keys are the edges of
\* the topology artifact.
ConsistentPair(d) ==
    /\ d.topo.exists
    /\ d.meta.exists
    /\ DOMAIN marshal_load(d.meta.data) = EdgeKeys(TUNGraph_Load(d.topo.data))

\* C10: load fails, returning no graph, when an artifact is missing or the
\* sidecar's keys are not the edges of the topology artifact, and returns a
\* graph only for a consistent pair.
C10_LoadRejectsInconsistentPair ==
    last.op = "load" =>
        IF ConsistentPair(disk)
        THEN last.status = "ok" /\ last.ret # None
        ELSE last.status # "ok" /\ last.ret = None

\* The graph that load has just returned, if any.
Loaded == IF last.op = "load" /\ last.status = "ok" THEN {last.ret[1]} ELSE {}

\* C11: in every reachable state, the save/load round trip included, the
\* entity ids are exactly {1, 3, ..., 2 * num_entities - 1} and the item ids
\* exactly {2, 4, ..., 2 * num_items}, and add_entity (add_item) returns an
\* Entity (Item) id that is no node yet and is greater than every entity
\* (item) id of the graph.
C11_IdsAllocatedInOrder ==
    \A self \in {ei_graph} \cup Loaded :
        /\ get_entities(self) = {2 * k + 1 : k \in 0 .. self.num_entities - 1}
        /\ get_items(self) = {2 * k : k \in 1 .. self.num_items}
        /\ LET r == add_entity(self)
           IN  /\ r.status = "ok"
               /\ nid_is_entity(r.ret[1])
               /\ r.ret[1] \notin self.G.nodes
               /\ \A n \in get_entities(self) : r.ret[1] > n
        /\ LET r == add_item(self)
           IN  /\ r.status = "ok"
               /\ nid_is_item(r.ret[1])
               /\ r.ret[1] \notin self.G.nodes
               /\ \A n \in get_items(self) : r.ret[1] > n

\* add_entity has just returned 3 on a graph that went through save and load
\* with entity 1 and item 2.
C11_Witness ==
    /\ last.op = "add_entity" /\ last.status = "ok" /\ last.ret = <<3>>
    /\ disk.topo.exists /\ disk.meta.exists
    /\ TUNGraph_Load(disk.topo.data).nodes = {1, 2}
    /\ ei_graph.G.nodes = {1, 2, 3}

\* C12: after every public operation, load included, num_entities is the
\* number of Entity nodes and num_items the number of Item nodes.
C12_CountersCountNodes ==
    \A self \in {ei_graph} \cup Loaded :
        /\ self.num_entities
              = Cardinality({n \in self.G.nodes : nid_is_entity(n)})
        /\ self.num_items = Cardinality({n \in self.G.nodes : nid_is_item(n)})

\* load has just returned a graph with entities, items and an edge.
C12_Witness ==
    /\ last.op = "load" /\ last.status = "ok"
    /\ last.ret[1].num_entities = 2
    /\ last.ret[1].num_items = 1
    /\ last.ret[1].G.edges # {}

\* C13: on every node of the graph get_random_neighbor fails when the node
\* has no incident edge, and otherwise returns, with and without weights, a
\* node n with is_edge(node, n); it never changes the graph.
C13_RandomNeighborIsNeighbor ==
    \A node \in ei_graph.G.nodes, use_weights \in BOOLEAN :
        /\ get_random_neighbor(ei_graph, node, use_weights) # {}
        /\ \A r \in get_random_neighbor(ei_graph, node, use_weights) :
              /\ r.graph = ei_graph
              /\ IF GetOutEdges(ei_graph.G, node) = {}
                 THEN r.status = "ValueError"
                 ELSE r.status = "ok" /\ is_edge(ei_graph, node, r.ret[1])

\* C14: TinyTestLoader.load() returns, without error, a graph with the
\* entities {1, 3, 5, 7, 9, 11}, the items {2, 4, 6, 8, 10} and exactly 12
\* edges, each of weight 1, in which the neighbors of entity 1 are {2, 4, 6}.
C14_TinyTestGraph ==
    last.op = "TinyTestLoader.load" =>
        /\ last.status = "ok"
        /\ get_entities(last.ret[1]) = {1, 3, 5, 7, 9, 11}
        /\ get_items(last.ret[1]) = {2, 4, 6, 8, 10}
        /\ last.ret[1].G.nodes = {1, 3, 5, 7, 9, 11} \cup {2, 4, 6, 8, 10}
        /\ Cardinality(last.ret[1].G.edges) = 12
        /\ \A e \in last.ret[1].G.edges :
              \E a \in e, b \in e :
                  /\ e = {a, b}
                  /\ get_edge_weight(last.ret[1], a, b).status = "ok"
                  /\ get_edge_weight(last.ret[1], a, b).ret = <<1>>
        /\ get_neighbors(last.ret[1], 1).ret = << <<2, 4, 6>> >>

\* TinyTestLoader.load() has returned.
C14_Witness ==
    /\ last.op = "TinyTestLoader.load"
    /\ last.ret # None
    /\ Cardinality(last.ret[1].G.edges) = 12

\* C15: at the head of the random loader's loop, every pair a pass can draw
\* is an entity node and an item node of the graph being built, every
\* (entity, item) pair of that graph can be drawn, and edges_left plus the
\* number of edges of the graph is num_edges.
C15_DrawsAreNodePairs ==
    pc = "loop" =>
        /\ edges_left + Cardinality(Graph[1].G.edges) = loader[1].num_edges
        /\ edges_left > 0 =>
              /\ entity_node_ids(loader[1]) \subseteq get_entities(Graph[1])
              /\ item_node_ids(loader[1]) \subseteq get_items(Graph[1])
              /\ get_entities(Graph[1]) \X get_items(Graph[1])
                    \subseteq entity_node_ids(loader[1])
                                \X item_node_ids(loader[1])

\* C16: under fair draws, every load() of an accepted configuration that has
\* entered its loop eventually returns.
C16_LoadEventuallyReturns == (pc = "loop") ~> (pc = "returned")

\* C17: save writes the topology artifact, then the sidecar: a save
\* interrupted between the two leaves the new topology with the old sidecar,
\* which is an inconsistent pair when it overwrites a saved graph with
\* another edge set; a save that runs to completion leaves a consistent pair.
C17_SaveTwoSteps ==
    /\ save_meta_fails(ei_graph, disk).disk.topo = save(ei_graph, disk).disk.topo
    /\ save_meta_fails(ei_graph, disk).disk.meta = disk.meta
    /\ (/\ disk.topo.exists
        /\ disk.meta.exists
        /\ TUNGraph_Load(disk.topo.data).edges # ei_graph.G.edges)
          => ~ConsistentPair(save_meta_fails(ei_graph, disk).disk)
    /\ save(ei_graph, disk).status = "ok"
          => ConsistentPair(save(ei_graph, disk).disk)
    /\ (last.op = "save" /\ last.status = "ok") => ConsistentPair(disk)

\* C18: a call of add_edge, del_edge, get_edge_weight, get_random_neighbor,
\* has_entity or has_item that fails, with any ids, leaves the nodes, the
\* edges, the weight map and the counters as they were.
C18_FailingCallsChangeNothing ==
    \A nid1 \in NodeIds, nid2 \in NodeIds :
        /\ \A weight \in Weights :
              add_edge(ei_graph, nid1, nid2, weight).status # "ok"
                  => add_edge(ei_graph, nid1, nid2, weight).graph = ei_graph
        /\ del_edge(ei_graph, nid1, nid2).status # "ok"
              => del_edge(ei_graph, nid1, nid2).graph = ei_graph
        /\ get_edge_weight(ei_graph, nid1, nid2).status # "ok"
              => get_edge_weight(ei_graph, nid1, nid2).graph = ei_graph
        /\ \A use_weights \in BOOLEAN :
              \A r \in get_random_neighbor(ei_graph, nid1, use_weights) :
                  r.status # "ok" => r.graph = ei_graph
        /\ has_entity(ei_graph, nid1).status # "ok"
              => has_entity(ei_graph, nid1).graph = ei_graph
        /\ has_item(ei_graph, nid1).status # "ok"
              => has_item(ei_graph, nid1).graph = ei_graph

\* The edge operations give the same outcome for (e, i) and (i, e).
OrderIndependent ==
    \A e \in {n \in NodeIds : nid_is_entity(n)},
       i \in {n \in NodeIds : nid_is_item(n)} :
        /\ \A w \in Weights :
              add_edge(ei_graph, e, i, w) = add_edge(ei_graph, i, e, w)
        /\ is_edge(ei_graph, e, i) = is_edge(ei_graph, i, e)
        /\ get_edge_weight(ei_graph, e, i) = get_edge_weight(ei_graph, i, e)
        /\ del_edge(ei_graph, e, i) = del_edge(ei_graph, i, e)

\* C19: every key of the weight map is an (entity id, item id) pair, and
\* add_edge, is_edge, get_edge_weight and del_edge do not depend on the order
\* of their two ids.
C19_KeysCanonical ==
    /\ \A key \in DOMAIN ei_graph.weights :
          nid_is_entity(key[1]) /\ nid_is_item(key[2])
    /\ OrderIndependent

RECURSIVE SeqSum(_)
SeqSum(s) == IF s = <<>> THEN 0 ELSE s[1] + SeqSum(Tail(s))

\* The weight stored for the edge between node and neighbor.
StoredWeight(self, node, neighbor) ==
    IF nid_is_entity(node)
    THEN self.weights[<<node, neighbor>>]
    ELSE self.weights[<<neighbor, node>>]

\* C20: in weighted mode, for every node with a neighbor, reading the
\* weights does not fail, and the sampler gets the neighbors of the node as
\* values, a weights list of the same length whose k-th entry is the stored
\* weight of the edge to the k-th neighbor, and the sum of that list as
\* weight_sum.
C20_SamplerArguments ==
    \A node \in {n \in ei_graph.G.nodes : GetOutEdges(ei_graph.G, n) # {}} :
        LET neighbors == get_neighbors(ei_graph, node).ret[1]
            rw == read_weights(ei_graph, node, neighbors, Len(neighbors))
        IN  /\ {neighbors[k] : k \in 1 .. Len(neighbors)}
                  = GetOutEdges(ei_graph.G, node)
            /\ Len(neighbors) = Cardinality(GetOutEdges(ei_graph.G, node))
            /\ rw.status = "ok"
            /\ Len(rw.weights) = Len(neighbors)
            /\ \A k \in 1 .. Len(neighbors) :
                  rw.weights[k] = StoredWeight(ei_graph, node, neighbors[k])
            /\ rw.weight_sum = SeqSum(rw.weights)
            /\ \A r \in get_random_neighbor(ei_graph, node, TRUE) :
                  /\ r.status = "ok"
                  /\ r.ret[1] \in weighted_choice(neighbors, rw.weights,
                                                  rw.weight_sum)

\* A weighted draw has returned on a graph in which item 2 has the neighbors
\* 1 and 3 with different weights.
C20_Witness ==
    /\ last.op = "get_random_neighbor(use_weights=True)"
    /\ last.status = "ok"
    /\ GetOutEdges(ei_graph.G, 2) = {1, 3}
    /\ ei_graph.weights[<<1, 2>>] # ei_graph.weights[<<3, 2>>]

====
